---- MODULE Spec2Model ----
(***************************************************************************)
(* Model of connect.py: the AdobeAnalytics client.                         *)
(*                                                                         *)
(* One client instance is modelled.  `client` is the instance's attribute  *)
(* dictionary (an attribute that was never assigned is not in its domain,  *)
(* so reading it is an AttributeError), `pc` is the position of the caller *)
(* (inside __init__, or holding a constructed client), and `last` records  *)
(* what the most recent call did: its arguments, the HTTP request it sent, *)
(* the response it received and how it ended (return value or exception).  *)
(*                                                                         *)
(* Python values that are arguments, results or attributes of mixed type   *)
(* (None / str / dict / list / enum member) are tagged records, so that    *)
(* `x is None`, `isinstance` and `==` between unlike types are computed as *)
(* Python computes them.  A decoded JSON body is a record.                 *)
(* The wall clock (the JWT "exp" claim) and console logging are outside    *)
(* the model.                                                              *)
(***************************************************************************)
EXTENDS Integers, Sequences, FiniteSets, TLC

VARIABLES pc, client, last

vars == <<pc, client, last>>

---------------------------------------------------------------------------
(* Python values *)

PyNone == [type |-> "NoneType"]
PyStr(s) == [type |-> "str", str |-> s]
PyDict(d) == [type |-> "dict", dict |-> d]
PyList(l) == [type |-> "list", list |-> l]

IsNone(x) == x.type = "NoneType"

\* bool(x) for the values used as conditions
Truthy(x) ==
    CASE x.type = "NoneType" -> FALSE
      [] x.type = "str" -> x.str # ""
      [] x.type = "dict" -> DOMAIN x.dict # {}
      [] x.type = "list" -> x.list # <<>>
      [] OTHER -> TRUE

\* x == y for a tagged value x and a str literal y: unlike types are unequal
EqStr(x, lit) == x.type = "str" /\ x.str = lit

Digit(d) == SubSeq("0123456789", d + 1, d + 1)

RECURSIVE IntStr(_)
\* str(n) for a non-negative int
IntStr(n) == IF n < 10 THEN Digit(n) ELSE IntStr(n \div 10) \o Digit(n % 10)

\* the text an f-string puts for {x}
Format(x) ==
    CASE x.type = "NoneType" -> "None"
      [] x.type = "str" -> x.str

\* c in s, for a one-character c
Contains(s, c) == \E i \in 1..Len(s) : SubSeq(s, i, i) = c

\* s.startswith(c), for a one-character c
StartsWith(s, c) == Len(s) >= 1 /\ SubSeq(s, 1, 1) = c

RECURSIVE Split(_, _)
\* s.split(sep), for a one-character sep
Split(s, sep) ==
    IF ~Contains(s, sep) THEN <<s>>
    ELSE LET i == CHOOSE k \in 1..Len(s) :
                     /\ SubSeq(s, k, k) = sep
                     /\ \A j \in 1..(k - 1) : SubSeq(s, j, j) # sep
         IN <<SubSeq(s, 1, i - 1)>> \o Split(SubSeq(s, i + 1, Len(s)), sep)

\* d.update(other) on dicts
Update(d, other) ==
    [k \in DOMAIN d \cup DOMAIN other |-> IF k \in DOMAIN other THEN other[k] ELSE d[k]]

\* self.name = value
SetAttr(obj, name, value) ==
    [a \in DOMAIN obj \cup {name} |-> IF a = name THEN value ELSE obj[a]]

HasAttr(obj, name) == name \in DOMAIN obj

---------------------------------------------------------------------------
(* How a call ends *)

NoExc == [type |-> "", args |-> <<>>]
Exc(type, args) == [type |-> type, args |-> args]

Return(v) == [kind |-> "return", exc |-> NoExc, value |-> v]
Raise(type, args) == [kind |-> "raise", exc |-> Exc(type, args), value |-> PyNone]

\* d[key] on a dict
GetItem(d, key) ==
    IF key \in DOMAIN d THEN Return(d[key]) ELSE Raise("KeyError", <<key>>)

\* l[0] on a list
GetFirst(l) ==
    IF Len(l) >= 1 THEN Return(l[1]) ELSE Raise("IndexError", <<"list index out of range">>)

---------------------------------------------------------------------------
(* HTTP *)

NoHeaders == [k \in {} |-> ""]
NoRequest == [method |-> "NONE", url |-> "", headers |-> NoHeaders, body |-> PyNone]
NoResponse == [status_code |-> 0, json |-> PyNone]

Request(method, url, headers, body) ==
    [method |-> method, url |-> url, headers |-> headers, body |-> body]

Response(status_code, json) == [status_code |-> status_code, json |-> json]

---------------------------------------------------------------------------
(* Module constants and the process environment *)

BASE_URL == "https://analytics.adobe.io/"
JWT_URL == "https://ims-na1.adobelogin.com/ims/exchange/jwt"

\* the enumeration members; a member never compares equal to a str
RequestType_GET == [type |-> "RequestType", name |-> "GET", value |-> 0]
RequestType_POST == [type |-> "RequestType", name |-> "POST", value |-> 1]

\* os.environ[...] and ./creds/keys/private.key
ORG_ID == "org@AdobeOrg"
TECH_ID == "tech@techacct.adobe.com"
CLIENT_ID == "client-id"
CLIENT_SECRET == "client-secret"
PRIVATE_KEY == "private-key"

\* jwt.encode(payload, key, algorithm): the signed assertion
jwt_encode(payload, key, algorithm) ==
    [payload |-> payload, signed_with |-> key, alg |-> algorithm]

---------------------------------------------------------------------------
(* Inputs *)

MaxMetrics == 2

RSIDs == {PyNone, PyStr("rs1")}
Tokens == {"tokA"}
CompanyIds == {"co1"}

\* what the identity endpoint answers: 200 with a token, or an error
TokenResponses ==
    {Response(200, [access_token |-> t, token_type |-> "bearer"]) : t \in Tokens}
    \cup {Response(s, [error |-> "invalid_token"]) : s \in {400, 500}}

\* what discovery/me answers
DiscoveryBodies ==
    {[imsOrgs |-> <<[imsOrgId |-> ORG_ID,
                     companies |-> <<[globalCompanyId |-> c, companyName |-> "Co"]>>]>>]
        : c \in CompanyIds}
    \cup {[imsOrgs |-> <<>>],
          [imsOrgs |-> <<[imsOrgId |-> ORG_ID, companies |-> <<>>]>>],
          [imsOrgs |-> <<[imsOrgId |-> ORG_ID]>>]}
ErrorBody == [error_code |-> "401013", message |-> "Oauth token is not valid"]
DiscoveryResponses ==
    {Response(200, b) : b \in DiscoveryBodies} \cup {Response(401, ErrorBody)}

\* what a reporting endpoint answers
OkBody == [rows |-> <<"row">>, totalPages |-> 1]
ApiResponses == {Response(200, OkBody), Response(404, ErrorBody)}

\* datetime.date values
Date(y, m, d) == [year |-> y, month |-> m, day |-> d]
\* the (start, end) pairs given to set_date_range
DateRanges ==
    {[start |-> Date(2023, 12, 25), end |-> Date(2024, 1, 1)],
     [start |-> Date(2024, 1, 1), end |-> Date(2024, 1, 8)]}

MetricIds == {"metrics/visits", "customEventNoSlash", "ns/a/b"}

RECURSIVE SeqsUpTo(_, _)
\* the lists over S of length at most n
SeqsUpTo(S, n) ==
    IF n = 0 THEN {<<>>}
    ELSE LET shorter == SeqsUpTo(S, n - 1)
         IN  shorter \cup {Append(q, x) : q \in shorter, x \in S}

MetricLists == SeqsUpTo(MetricIds, MaxMetrics)
\* the metric lists given to get_report
ReportMetricLists == SeqsUpTo({"metrics/visits", "customEventNoSlash"}, MaxMetrics)
Dimensions == {"variables/page"}
SegmentIds == {"s300000000_seg"}
Limits == {10}
Pages == {0, 1}

AdditionalHeaders ==
    {PyNone,
     PyDict([k \in {"Content-Type"} |-> "application/json"]),
     PyDict([k \in {"Authorization"} |-> "Basic override"])}

\* the (endpoint, url, request_header) arguments given to make_request:
\* the defaults, and an explicit url with a header the client built
RequestTargets(self) ==
    {[endpoint |-> "reports", url |-> PyNone, request_header |-> PyNone],
     [endpoint |-> "metrics?limit=10", url |-> PyStr(BASE_URL),
      request_header |-> PyDict([k \in {"Accept", "Authorization", "x-api-key"} |->
                                    CASE k = "Accept" -> "application/json"
                                      [] k = "Authorization" ->
                                             "Bearer " \o Format(self.ACCESS_TOKEN)
                                      [] k = "x-api-key" -> CLIENT_ID])]}

\* the (request_type, post_body) arguments given to make_request; the
\* default request_type is the str "GET"
RequestKinds ==
    {[request_type |-> t, post_body |-> PyNone]
        : t \in {PyStr("GET"), RequestType_GET}}
    \cup {[request_type |-> t, post_body |-> b]
        : t \in {PyStr("POST"), RequestType_POST},
          b \in {PyNone, PyDict([k \in {} |-> ""]), PyDict([rsid |-> "rs1"])}}

RECURSIVE Columns(_, _)
\* [{"columnId": idx, "id": x} for idx, x in enumerate(metrics_list)],
\* counting from idx
Columns(metrics_list, idx) ==
    IF metrics_list = <<>> THEN <<>>
    ELSE <<[columnId |-> idx, id |-> Head(metrics_list)]>>
         \o Columns(Tail(metrics_list), idx + 1)

\* the metric container of a report body over a metric list
MetricContainer(metrics_list) == [metrics |-> Columns(metrics_list, 0)]

\* workspace JSON: a full report body, one without a metrics list, one
\* without a metric container
Workspaces ==
    {[rsid |-> "rs1", metricContainer |-> MetricContainer(<<"metrics/visits">>),
      dimension |-> "variables/page"],
     [rsid |-> "rs1", metricContainer |-> [metricFilters |-> <<>>],
      dimension |-> "variables/page"],
     [rsid |-> "rs1", dimension |-> "variables/page"]}

\* util.read_json(path): the parsed content of the file
read_json(path) ==
    [rsid |-> "rs1", metricContainer |-> MetricContainer(<<"metrics/visits">>),
     dimension |-> path]


---------------------------------------------------------------------------
(* The client *)

\* the record of one call
Call(op, args, request, response, end) ==
    [op |-> op, args |-> args, request |-> request, response |-> response,
     kind |-> end.kind, exc |-> end.exc, value |-> end.value]

\* make_header without the update that adds the tenant header
make_header_no_tenant(self, additional_header, global_id) ==
    IF ~HasAttr(self, "ACCESS_TOKEN") THEN Raise("AttributeError", <<"ACCESS_TOKEN">>)
    ELSE
    LET base_header == [k \in {"Accept", "Authorization", "x-api-key"} |->
                           CASE k = "Accept" -> "application/json"
                             [] k = "Authorization" -> "Bearer " \o Format(self.ACCESS_TOKEN)
                             [] k = "x-api-key" -> CLIENT_ID]
    IN  IF global_id THEN Return(PyDict(base_header))
        ELSE IF additional_header.type = "dict"
             THEN Return(PyDict(Update(base_header, additional_header.dict)))
             ELSE Return(PyDict(base_header))

\* make_header: the header dict, or the
\* AttributeError of reading an attribute the instance does not have
make_header(self, additional_header, global_id) ==
    IF ~HasAttr(self, "ACCESS_TOKEN") THEN Raise("AttributeError", <<"ACCESS_TOKEN">>)
    ELSE
    LET base_header == [k \in {"Accept", "Authorization", "x-api-key"} |->
                           CASE k = "Accept" -> "application/json"
                             [] k = "Authorization" -> "Bearer " \o Format(self.ACCESS_TOKEN)
                             [] k = "x-api-key" -> CLIENT_ID]
    IN  IF global_id THEN Return(PyDict(base_header))
        ELSE IF ~HasAttr(self, "GLOBAL_CO_ID")
             THEN Raise("AttributeError", <<"GLOBAL_CO_ID">>)
        ELSE LET with_id == Update(base_header,
                                   [k \in {"x-proxy-global-company-id"} |-> self.GLOBAL_CO_ID])
             IN  IF additional_header.type = "dict"
                 THEN Return(PyDict(Update(with_id, additional_header.dict)))
                 ELSE Return(PyDict(with_id))

\* make_request(...) given the response the server gives if a request is
\* sent: the request sent (NoRequest if none), the response received and
\* stored in recent_response, and how the call ends
make_request(self, endpoint, url, request_header, request_type, post_body, resp) ==
    LET hdr == IF IsNone(request_header) THEN make_header(self, PyNone, FALSE)
               ELSE Return(request_header)
        none(end) == [request |-> NoRequest, response |-> NoResponse, end |-> end]
    IN  IF hdr.kind = "raise" THEN none(hdr)
        ELSE IF IsNone(url) /\ ~HasAttr(self, "BASE_REPORTING_URL")
             THEN none(Raise("AttributeError", <<"BASE_REPORTING_URL">>))
        ELSE
        LET u == IF IsNone(url) THEN self.BASE_REPORTING_URL ELSE url.str
            ep == IF Contains(endpoint, "?")
                  THEN endpoint \o "&rsid=" \o Format(self.RSID)
                  ELSE endpoint \o "?rsid=" \o Format(self.RSID)
        IN  IF EqStr(request_type, "GET")
            THEN [request |-> Request("GET", u \o ep, hdr.value.dict, PyNone),
                  response |-> resp, end |-> Return(PyDict(resp.json))]
            ELSE IF EqStr(request_type, "POST") /\ Truthy(post_body)
            THEN [request |-> Request("POST", u \o ep, hdr.value.dict, post_body),
                  response |-> resp, end |-> Return(PyDict(resp.json))]
            ELSE none(Raise("UnboundLocalError", <<"response">>))

\* the instance after make_request: recent_response is assigned when a
\* request was sent
AfterRequest(self, r) ==
    IF r.request.method = "NONE" THEN self
    ELSE SetAttr(self, "recent_response", r.response)

NoArgs == [none |-> TRUE]

NoCall == Call("", NoArgs, NoRequest, NoResponse, Return(PyNone))

Init ==
    /\ pc = "new"
    /\ client = [a \in {} |-> PyNone]
    /\ last = NoCall

\* AdobeAnalytics(rsid): __init__ up to the token exchange
__init__ ==
    /\ pc = "new"
    /\ \E rsid \in RSIDs :
        /\ client' = SetAttr(SetAttr(client, "RSID", rsid), "console", "Console")
        /\ last' = Call("__init__", [rsid |-> rsid], NoRequest, NoResponse, Return(PyNone))
    /\ pc' = "token"

\* self.ACCESS_TOKEN = self._get_access_token_()
_get_access_token_ ==
    /\ pc = "token"
    /\ \E resp \in TokenResponses :
        LET jwt_payload == [iss |-> ORG_ID, sub |-> TECH_ID,
                            scope |-> TRUE,
                            aud |-> "https://ims-na1.adobelogin.com/c/" \o CLIENT_ID]
            encoded_jwt == jwt_encode(jwt_payload, PRIVATE_KEY, "RS256")
            access_payload == [client_id |-> CLIENT_ID, client_secret |-> CLIENT_SECRET,
                               jwt_token |-> encoded_jwt]
            req == Request("POST", JWT_URL, NoHeaders, PyDict(access_payload))
            end == IF resp.status_code = 200
                   THEN LET t == GetItem(resp.json, "access_token")
                        IN  IF t.kind = "raise" THEN t ELSE Return(PyStr(t.value))
                   ELSE Return(PyNone)
        IN  /\ last' = Call("_get_access_token_", NoArgs, req, resp, end)
            /\ IF end.kind = "return"
               THEN /\ client' = SetAttr(client, "ACCESS_TOKEN", end.value)
                    /\ pc' = "tenant"
               ELSE /\ client' = client
                    /\ pc' = "aborted"

\* self.BASE_REPORTING_URL = self._get_global_id_()
_get_global_id_ ==
    /\ pc = "tenant"
    /\ \E resp \in DiscoveryResponses :
        LET hdr == make_header(client, PyNone, TRUE)
            r == make_request(client, "discovery/me", PyStr(BASE_URL), hdr.value,
                              PyStr("GET"), PyNone, resp)
            s1 == AfterRequest(client, r)
            s2 == SetAttr(s1, "global_details", r.end.value)
            orgs == GetItem(r.end.value.dict, "imsOrgs")
            org == IF orgs.kind = "raise" THEN orgs ELSE GetFirst(orgs.value)
            cos == IF org.kind = "raise" THEN org ELSE GetItem(org.value, "companies")
            co == IF cos.kind = "raise" THEN cos ELSE GetFirst(cos.value)
            id == IF co.kind = "raise" THEN co ELSE GetItem(co.value, "globalCompanyId")
        IN  IF hdr.kind = "raise"
            THEN /\ last' = Call("_get_global_id_", NoArgs, NoRequest, NoResponse, hdr)
                 /\ client' = client
                 /\ pc' = "aborted"
            ELSE IF r.end.kind = "raise"
            THEN /\ last' = Call("_get_global_id_", NoArgs, r.request, r.response, r.end)
                 /\ client' = s1
                 /\ pc' = "aborted"
            ELSE IF id.kind = "raise"
            THEN /\ last' = Call("_get_global_id_", NoArgs, r.request, r.response, id)
                 /\ client' = s2
                 /\ pc' = "aborted"
            ELSE LET s3 == SetAttr(s2, "GLOBAL_CO_ID", id.value)
                     base == "https://analytics.adobe.io/api/" \o id.value \o "/"
                 IN  /\ last' = Call("_get_global_id_", NoArgs, r.request, r.response,
                                     Return(PyStr(base)))
                     /\ client' = SetAttr(s3, "BASE_REPORTING_URL", base)
                     /\ pc' = "ready"

\* '%Y-%m-%d': zero-padded fields
Pad2(n) == IF n < 10 THEN "0" \o IntStr(n) ELSE IntStr(n)
Pad4(n) ==
    IF n < 10 THEN "000" \o IntStr(n)
    ELSE IF n < 100 THEN "00" \o IntStr(n)
    ELSE IF n < 1000 THEN "0" \o IntStr(n)
    ELSE IntStr(n)
strftime(date) == Pad4(date.year) \o "-" \o Pad2(date.month) \o "-" \o Pad2(date.day)

\* __format_date_range__: the formatted range, or the AttributeError of a
\* date that was never set
__format_date_range__(self) ==
    IF ~HasAttr(self, "start_date") THEN Raise("AttributeError", <<"start_date">>)
    ELSE IF ~HasAttr(self, "end_date") THEN Raise("AttributeError", <<"end_date">>)
    ELSE Return(PyStr(strftime(self.start_date) \o "T00:00:00.000/"
                      \o strftime(self.end_date) \o "T00:00:00.000"))

\* client.make_header(additional_header, global_id)
call_make_header ==
    /\ pc = "ready"
    /\ \E additional_header \in AdditionalHeaders, global_id \in BOOLEAN :
        /\ last' = Call("make_header",
                        [additional_header |-> additional_header, global_id |-> global_id],
                        NoRequest, NoResponse,
                        make_header(client, additional_header, global_id))
    /\ UNCHANGED <<pc, client>>

\* client.make_request(endpoint, url, request_header, request_type, post_body)
call_make_request ==
    /\ pc = "ready"
    /\ \E target \in RequestTargets(client), kind \in RequestKinds, resp \in ApiResponses :
        LET r == make_request(client, target.endpoint, target.url, target.request_header,
                              kind.request_type, kind.post_body, resp)
        IN  /\ last' = Call("make_request",
                            [endpoint |-> target.endpoint, url |-> target.url,
                             request_header |-> target.request_header,
                             request_type |-> kind.request_type,
                             post_body |-> kind.post_body],
                            r.request, r.response, r.end)
            /\ client' = AfterRequest(client, r)
    /\ UNCHANGED pc

set_date_range ==
    /\ pc = "ready"
    /\ \E range \in DateRanges :
        LET s1 == SetAttr(SetAttr(client, "start_date", range.start), "end_date", range.end)
        IN  /\ client' = s1
            /\ last' = Call("set_date_range", range,
                            NoRequest, NoResponse, __format_date_range__(s1))
    /\ UNCHANGED pc

\* a discovery wrapper that returns make_request(endpoint)
Discover(op, args, endpoint, resp) ==
    LET r == make_request(client, endpoint, PyNone, PyNone, PyStr("GET"), PyNone, resp)
    IN  /\ last' = Call(op, args, r.request, r.response, r.end)
        /\ client' = AfterRequest(client, r)
        /\ UNCHANGED pc

\* get_report_suite_id storing the first suite of the answer as the RSID
get_report_suite_id_sets_rsid ==
    /\ pc = "ready"
    /\ \E limit \in Limits, page \in Pages, resp \in ApiResponses :
        LET endpoint == "/collections/suites?limit=" \o IntStr(limit)
                        \o "&page=" \o IntStr(page)
            r == make_request(client, endpoint, PyNone, PyNone, PyStr("GET"), PyNone, resp)
            s1 == AfterRequest(client, r)
            rows == GetItem(r.end.value.dict, "rows")
        IN  /\ last' = Call("get_report_suite_id", [limit |-> limit, page |-> page],
                            r.request, r.response,
                            IF r.end.kind = "raise" THEN r.end
                            ELSE IF rows.kind = "raise" THEN rows ELSE Return(PyNone))
            /\ client' = IF r.end.kind = "raise" \/ rows.kind = "raise" THEN s1
                         ELSE SetAttr(s1, "RSID", PyStr(Head(rows.value)))
    /\ UNCHANGED pc

get_report_suite_id ==
    /\ pc = "ready"
    /\ \E limit \in Limits, page \in Pages, resp \in ApiResponses :
        LET endpoint == "/collections/suites?limit=" \o IntStr(limit)
                        \o "&page=" \o IntStr(page)
            r == make_request(client, endpoint, PyNone, PyNone, PyStr("GET"), PyNone, resp)
            s1 == AfterRequest(client, r)
        IN  /\ last' = Call("get_report_suite_id", [limit |-> limit, page |-> page],
                            r.request, r.response,
                            IF r.end.kind = "raise" THEN r.end ELSE Return(PyNone))
            /\ client' = IF r.end.kind = "raise" THEN s1
                         ELSE SetAttr(s1, "reporting_suites", r.end.value)
    /\ UNCHANGED pc

get_segments ==
    /\ pc = "ready"
    /\ \E limit \in Limits, page \in Pages, resp \in ApiResponses :
        Discover("get_segments", [limit |-> limit, page |-> page],
                 "segments?limit=" \o IntStr(limit), resp)

get_dimensions ==
    /\ pc = "ready"
    /\ \E limit \in Limits, resp \in ApiResponses :
        Discover("get_dimensions", [limit |-> limit],
                 "dimensions?limit=" \o IntStr(limit), resp)

get_metrics ==
    /\ pc = "ready"
    /\ \E limit \in Limits, resp \in ApiResponses :
        Discover("get_metrics", [limit |-> limit],
                 "metrics?limit=" \o IntStr(limit), resp)

get_projects ==
    /\ pc = "ready"
    /\ \E limit \in Limits, page \in Pages, resp \in ApiResponses :
        Discover("get_projects", [limit |-> limit, page |-> page],
                 "project?&limit=" \o IntStr(limit) \o "&page=" \o IntStr(page), resp)

get_report ==
    /\ pc = "ready"
    /\ \E metrics_list \in ReportMetricLists, dimension \in Dimensions,
          segment_id \in SegmentIds, resp \in ApiResponses :
        LET args == [metrics_list |-> metrics_list, dimension |-> dimension,
                     segment_id |-> segment_id]
            range == __format_date_range__(client)
        IN  IF range.kind = "raise"
            THEN /\ last' = Call("get_report", args, NoRequest, NoResponse, range)
                 /\ client' = client
            ELSE
            LET report_body ==
                    [rsid |-> client.RSID,
                     globalFilters |-> <<[type |-> "dateRange",
                                          dateRange |-> range.value.str,
                                          segmentId |-> segment_id]>>,
                     metricContainer |-> MetricContainer(metrics_list),
                     dimension |-> dimension,
                     settings |-> [dimensionSort |-> "asc", limit |-> 50000]]
                r == make_request(client, "reports", PyNone, PyNone, PyStr("POST"),
                                  PyDict(report_body), resp)
            IN  /\ last' = Call("get_report", args, r.request, r.response, r.end)
                /\ client' = AfterRequest(client, r)
    /\ UNCHANGED pc

from_workspace ==
    /\ pc = "ready"
    /\ \E workspace_json \in {PyDict(w) : w \in Workspaces} \cup {PyStr("ws.json")},
          resp \in ApiResponses :
        LET args == [workspace_json |-> workspace_json]
            ws == IF workspace_json.type = "str" THEN read_json(workspace_json.str)
                  ELSE workspace_json.dict
            container == GetItem(ws, "metricContainer")
            hdr == make_header(client, PyNone, FALSE)
        IN  /\ IF container.kind = "raise"
               THEN last' = Call("from_workspace", args, NoRequest, NoResponse, container)
               ELSE IF hdr.kind = "raise"
               THEN last' = Call("from_workspace", args, NoRequest, NoResponse, hdr)
               ELSE last' = Call("from_workspace", args,
                                 Request("POST", client.BASE_REPORTING_URL \o "reports",
                                         hdr.value.dict, PyDict(ws)),
                                 resp,
                                 IF StartsWith(IntStr(resp.status_code), "2")
                                 THEN Return(PyDict(resp.json)) ELSE Return(PyNone))
            /\ client' = client
    /\ UNCHANGED pc

\* x["id"].split("/")[1] if "/" in x["id"] else f"{idx}-{x['id']}"
MetricName(idx, x) ==
    IF Contains(x.id, "/") THEN Split(x.id, "/")[2]
    ELSE IntStr(idx) \o "-" \o x.id

RECURSIVE MetricNames(_, _)
\* [MetricName(idx, x) for idx, x in enumerate(metrics)], counting from idx
MetricNames(metrics, idx) ==
    IF metrics = <<>> THEN <<>>
    ELSE <<MetricName(idx, Head(metrics))>> \o MetricNames(Tail(metrics), idx + 1)

_get_metric_names ==
    /\ pc = "ready"
    /\ \E metrics_list \in MetricLists :
        LET json_body == [metricContainer |-> MetricContainer(metrics_list)]
            metrics == json_body.metricContainer.metrics
        IN  last' = Call("_get_metric_names", [json_body |-> json_body],
                         NoRequest, NoResponse,
                         Return(PyList(MetricNames(metrics, 0))))
    /\ UNCHANGED <<pc, client>>

Next ==
    \/ __init__
    \/ _get_access_token_
    \/ _get_global_id_
    \/ call_make_header
    \/ call_make_request
    \/ set_date_range
    \/ get_report_suite_id
    \/ get_segments
    \/ get_dimensions
    \/ get_metrics
    \/ get_projects
    \/ get_report
    \/ from_workspace
    \/ _get_metric_names

Spec == Init /\ [][Next]_vars

---------------------------------------------------------------------------
(* Properties *)

Is2xx(status_code) == status_code \div 100 = 2

Sent == last.request.method # "NONE"

TenantHeader == "x-proxy-global-company-id"

\* C1: the token exchange returns a non-empty token string on a 200 answer,
\* raises AuthenticationFailure carrying the status code on every non-2xx
\* answer, and never completes normally without a token.
C1_TokenOrAuthenticationFailure ==
    last.op = "_get_access_token_" =>
        /\ last.response.status_code = 200 =>
               /\ last.kind = "return"
               /\ last.value.type = "str"
               /\ last.value.str # ""
        /\ ~Is2xx(last.response.status_code) =>
               /\ last.kind = "raise"
               /\ last.exc.type = "AuthenticationFailure"
               /\ last.exc.args = <<last.response.status_code>>
        /\ last.kind = "return" => Truthy(last.value)

\* C2: every request sent with an Authorization header carries the
\* session's access token, and that token is a non-empty string.
C2_AuthenticatedRequestsCarryToken ==
    (Sent /\ "Authorization" \in DOMAIN last.request.headers) =>
        /\ HasAttr(client, "ACCESS_TOKEN")
        /\ client.ACCESS_TOKEN.type = "str"
        /\ client.ACCESS_TOKEN.str # ""
        /\ last.request.headers["Authorization"] = "Bearer " \o client.ACCESS_TOKEN.str

SessionAttrs == {"ACCESS_TOKEN", "GLOBAL_CO_ID", "BASE_REPORTING_URL", "RSID"}

PublicOps ==
    {"get_report_suite_id", "get_segments", "get_dimensions", "get_metrics",
     "get_projects", "set_date_range", "get_report", "from_workspace",
     "make_header", "make_request"}

\* the token is acquired before the tenant is resolved, the company id and
\* the base reporting URL are set together, and a public operation runs
\* only on a client that holds all of them
C3_Order ==
    /\ HasAttr(client, "ACCESS_TOKEN") => HasAttr(client, "RSID")
    /\ HasAttr(client, "GLOBAL_CO_ID") => HasAttr(client, "ACCESS_TOKEN")
    /\ HasAttr(client, "BASE_REPORTING_URL") <=> HasAttr(client, "GLOBAL_CO_ID")
    /\ pc = "ready" <=> HasAttr(client, "BASE_REPORTING_URL")
    /\ last.op \in PublicOps => \A a \in SessionAttrs : HasAttr(client, a)
    /\ (last.op = "_get_global_id_" /\ Sent) =>
           last.request.headers["Authorization"] = "Bearer " \o Format(client.ACCESS_TOKEN)

\* a session attribute, once assigned, is never assigned again
C3_AssignedOnce ==
    \A a \in SessionAttrs :
        HasAttr(client, a) => (HasAttr(client', a) /\ client'[a] = client[a])

\* C3: the access token, the company id and the base reporting URL are
\* acquired once, at construction, token first, before any public
\* operation, and no public operation changes them or the RSID.
C3_AcquiredOnceAtConstruction == []C3_Order /\ [][C3_AssignedOnce]_vars

\* a constructed client that has sent a report and still holds its session
C3_Witness ==
    /\ pc = "ready"
    /\ last.op = "get_report_suite_id"
    /\ last.kind = "return"
    /\ HasAttr(client, "reporting_suites")
    /\ HasAttr(client, "start_date")

\* the discovery body has no first org or no first company
NoFirstCompany(body) ==
    \/ "imsOrgs" \notin DOMAIN body
    \/ Len(body.imsOrgs) = 0
    \/ "companies" \notin DOMAIN body.imsOrgs[1]
    \/ Len(body.imsOrgs[1].companies) = 0

\* C4: tenant resolution on a response without a first org or first company
\* raises DiscoveryFailure and leaves the session without a company id or
\* base reporting URL.
C4_DiscoveryFailure ==
    (last.op = "_get_global_id_" /\ Sent /\ NoFirstCompany(last.response.json)) =>
        /\ last.kind = "raise"
        /\ last.exc.type = "DiscoveryFailure"
        /\ ~HasAttr(client, "GLOBAL_CO_ID")
        /\ ~HasAttr(client, "BASE_REPORTING_URL")

RequestOps ==
    {"make_request", "from_workspace", "get_segments", "get_dimensions",
     "get_metrics", "get_projects", "get_report"}

\* C5: a reporting or discovery call returns the decoded body on 2xx and
\* raises RequestFailure carrying the status on non-2xx.
C5_RequestFailure ==
    (last.op \in RequestOps /\ Sent) =>
        IF Is2xx(last.response.status_code)
        THEN last.kind = "return" /\ last.value = PyDict(last.response.json)
        ELSE /\ last.kind = "raise"
             /\ last.exc.type = "RequestFailure"
             /\ last.exc.args[1] = last.response.status_code

\* the url ends in ?rsid=<rsid> when nothing before has a "?", and in
\* &rsid=<rsid> when something has
HasRsidParam(url, rsid) ==
    LET param == "rsid=" \o rsid
        n == Len(url)
        m == Len(param)
    IN  /\ n > m + 1
        /\ SubSeq(url, n - m + 1, n) = param
        /\ IF Contains(SubSeq(url, 1, n - m - 1), "?")
           THEN SubSeq(url, n - m, n - m) = "&"
           ELSE SubSeq(url, n - m, n - m) = "?"

\* C6: every request to a discovery or reporting endpoint carries the RSID
\* fixed at construction as its rsid query parameter.
C6_RsidOnEveryRequest ==
    (Sent /\ last.op # "_get_access_token_") =>
        HasRsidParam(last.request.url, Format(client.RSID))

C8_DateRangeRequired ==
    last.op = "get_report" =>
        IF ~HasAttr(client, "start_date")
        THEN /\ last.kind = "raise"
             /\ last.exc.type = "ValidationFailure"
             /\ ~Sent
        ELSE /\ Sent
             /\ last.request.body.dict.globalFilters[1].dateRange =
                    strftime(client.start_date) \o "T00:00:00.000/"
                    \o strftime(client.end_date) \o "T00:00:00.000"

\* the name of a request kind, given as a str or as an enumeration member
KindName(request_type) ==
    IF request_type.type = "str" THEN request_type.str ELSE request_type.name

\* C9: make_request with the kind defaulted or given as RequestType.GET or
\* RequestType.POST performs exactly one round-trip of that kind, a POST
\* sending the given body, and returns the decoded JSON.
C9_ClosedRequestKind ==
    (/\ last.op = "make_request"
     /\ last.args.request_type \in {PyStr("GET"), RequestType_GET, RequestType_POST}
     /\ KindName(last.args.request_type) = "POST" => Truthy(last.args.post_body)) =>
        /\ last.request.method = KindName(last.args.request_type)
        /\ last.request.method = "POST" => last.request.body = last.args.post_body
        /\ last.kind = "return"
        /\ last.value = PyDict(last.response.json)

\* the part of s after its first "/"
AfterFirstSlash(s) ==
    LET i == CHOOSE k \in 1..Len(s) :
                 /\ SubSeq(s, k, k) = "/"
                 /\ \A j \in 1..(k - 1) : SubSeq(s, j, j) # "/"
    IN  SubSeq(s, i + 1, Len(s))

\* C10: _get_metric_names returns one name per metric in input order: the
\* whole part of the id after its first "/" when it has one, "{i}-{id}"
\* otherwise.
C10_MetricNames ==
    last.op = "_get_metric_names" =>
        LET metrics == last.args.json_body.metricContainer.metrics
        IN  /\ last.kind = "return"
            /\ Len(last.value.list) = Len(metrics)
            /\ \A i \in 1..Len(metrics) :
                   last.value.list[i] =
                       IF Contains(metrics[i].id, "/")
                       THEN AfterFirstSlash(metrics[i].id)
                       ELSE IntStr(i - 1) \o "-" \o metrics[i].id

====
